---- MODULE Spec2Model ----
(***************************************************************************)
(* A model of the OpenSky ingestion pipeline: the Producer (producer.py)   *)
(* polls the state-vector API with a bearer token and publishes every      *)
(* vector to the partitioned topic 'airspace-events'; the Consumer         *)
(* (consumer.py) polls the topic, buffers the rows and bulk-upserts them    *)
(* into the DuckDB table 'airspace'.                                        *)
(*                                                                         *)
(* JSON values are tagged records, so that null, numbers, strings and      *)
(* booleans stay distinct the way json.dumps / json.loads keep them.       *)
(* Times are whole seconds; the token expiry is kept in fifths of a second *)
(* (expires_at5), which makes now + ttl * 0.8 exact for every integer ttl. *)
(***************************************************************************)
EXTENDS Integers, Sequences, FiniteSets, Bags, TLC

VARIABLES
    \* ---- Producer process (producer.py) ----
    access_token,   \* token_info['access_token']: "None" or a token string
    expires_at5,    \* token_info['expires_at'], in fifths of a second
    now,            \* time.time(), whole seconds
    ppc,            \* the Producer's position in main()
    events,         \* the 'states' list of the response being published
    idx,            \* position of the for loop in events
    pending,        \* records handed to the log client, not yet delivered
    polls,          \* state-vector API requests issued so far
    \* ---- the event log ----
    log,            \* partition -> the sequence of messages it holds
    \* ---- Consumer process (consumer.py) ----
    cpc,            \* the Consumer's position in main()
    message,        \* the message returned by the last poll
    events_to_insert,   \* the Batch Buffer
    messages_processed, \* count of inserted records
    position,       \* partition -> next offset the subscription delivers
    committed,      \* partition -> offset committed for the consumer group
    store,          \* the rows of table airspace, a bag of row tuples
    con_open,       \* the DuckDB connection is open
    subscribed,     \* the log subscription is open
    escaped,        \* an exception other than KeyboardInterrupt left the loop
    \* ---- observation (history) variables ----
    hist            \* a record of observations of the run, see HistInit

vars == <<access_token, expires_at5, now, ppc, events, idx, pending, polls,
          log, cpc, message, events_to_insert, messages_processed, position,
          committed, store, con_open, subscribed, escaped, hist>>

prodVars == <<access_token, expires_at5, now, ppc, events, idx, pending, polls>>
consVars == <<cpc, message, events_to_insert, messages_processed, position,
              committed, store, con_open, subscribed, escaped>>

-----------------------------------------------------------------------------
(* Bounds of the model *)

MaxContact == 2     \* last_contact values served by the API are 1..MaxContact
MaxTicks == 3       \* state-vector API requests of one Producer run
MaxTokenTicks == 5  \* the same, where only the Token Manager is observed
MaxPipelineTicks == 2   \* the same, where the Consumer runs beside it
MaxVectors == 2     \* state vectors in one snapshot
MaxPublished == 3   \* records the Producer hands to the log client in one run
MaxDelay == 1       \* seconds an HTTP call can take
MaxLog == 3         \* messages already in the topic when the Consumer starts
MaxRestarts == 1    \* restarts of the Consumer process
MaxBatch == 2       \* rows of a batch written to an arbitrary table
MaxApplied == 2     \* times one batch is written to it
MaxFields == 18     \* fields of a raw state vector the API serves
FlushThreshold == 2 \* the flush threshold (2000 in consumer.py:100), scaled

-----------------------------------------------------------------------------
(* Program constants *)

poll_interval == 22
DefaultExpiresIn == 1800
NumPartitions == 3

state_vector_keys ==
    << "icao24", "callsign", "origin_country", "time_position", "last_contact",
       "longitude", "latitude", "baro_altitude", "on_ground", "velocity",
       "true_track", "vertical_rate", "sensors", "geo_altitude", "squawk",
       "spi", "position_source" >>

KeysSwapped ==
    << "icao24", "callsign", "origin_country", "last_contact", "time_position",
       "longitude", "latitude", "baro_altitude", "on_ground", "velocity",
       "true_track", "vertical_rate", "sensors", "geo_altitude", "squawk",
       "spi", "position_source" >>

(* state_vector_keys of consumer.py, which names the columns of a row *)
consumer_state_vector_keys ==
    << "icao24", "callsign", "origin_country", "time_position", "last_contact",
       "longitude", "latitude", "baro_altitude", "on_ground", "velocity",
       "true_track", "vertical_rate", "sensors", "geo_altitude", "squawk",
       "spi", "position_source" >>

-----------------------------------------------------------------------------
(* JSON values *)

JNull == [t |-> "null"]
JInt(n) == [t |-> "int", v |-> n]
JStr(s) == [t |-> "str", s |-> s]
JBool(b) == [t |-> "bool", b |-> b]

Min(a, b) == IF a < b THEN a ELSE b

None == "None"

(* The positional arrays the API serves.  Only the identifier, the        *)
(* last-contact time and the two NOT NULL flags vary; the other fields    *)
(* are null.                                                               *)
RawVector(icao, lc, og) ==
    << icao, JNull, JNull, JNull, lc, JNull, JNull, JNull, og, JNull,
       JNull, JNull, JNull, JNull, JNull, JBool(FALSE), JNull >>

Identifiers == {"a1b2c3", "d4e5f6"}

VectorPool ==
    { RawVector(JStr(a), JInt(c), JBool(FALSE)) :
          a \in Identifiers, c \in 1..MaxContact }
    \cup { RawVector(JNull, JInt(1), JBool(FALSE)) }   \* null identifier
    \cup { << >> }                                     \* no fields at all

Snapshots == UNION { [1..n -> VectorPool] : n \in 0..MaxVectors }

(* time-to-live values the auth endpoint returns in expires_in *)
TTLs == {55, 100}

(* dict(zip(state_vector_keys, state_vector)): an ordered list of          *)
(* <<name, value>> pairs, as long as the shorter of the two lists.         *)
ZipKeys(state_vector) ==
    [i \in 1..Min(Len(state_vector_keys), Len(state_vector)) |->
        <<state_vector_keys[i], state_vector[i]>>]

HasKey(d, k) == \E i \in 1..Len(d) : d[i][1] = k

(* d[k] of a dict that holds k, and d.get(k): None when k is absent *)
Get(d, k) ==
    IF HasKey(d, k)
    THEN d[CHOOSE i \in 1..Len(d) :
              d[i][1] = k /\ \A j \in (i+1)..Len(d) : d[j][1] # k][2]
    ELSE JNull

(* str() of a value inside an f-string; last_contact stays below 10 *)
DigitStr == <<"0", "1", "2", "3", "4", "5", "6", "7", "8", "9">>
PyStr(v) ==
    CASE v.t = "null" -> "None"
      [] v.t = "str"  -> v.s
      [] v.t = "int"  -> DigitStr[v.v + 1]
      [] v.t = "bool" -> IF v.b THEN "True" ELSE "False"

KeyByContact(keyed_state_vector) ==
    <<"ICAO_", PyStr(Get(keyed_state_vector, "last_contact"))>>

(* key_string = f"ICAO_{keyed_state_vector['icao24']}" *)
KeyString(keyed_state_vector) ==
    <<"ICAO_", PyStr(Get(keyed_state_vector, "icao24"))>>

(* json.dumps(d).encode('utf-8'): the text of a JSON object *)
JsonDumps(d) == [kind |-> "object", members |-> d]

(* The partition the log client picks for a key: a fixed function of the   *)
(* key bytes (a hash modulo the partition count).                          *)
PartitionOf(key) ==
    CASE key[2] = "a1b2c3" -> 1
      [] key[2] = "d4e5f6" -> 2
      [] key[2] = "None"   -> 1
      [] key[2] = "1"      -> 2
      [] key[2] = "2"      -> 3
      [] OTHER             -> 3

Partitions == 1..NumPartitions

(* the log after the client delivered the messages ms, in order *)
RECURSIVE Deliver(_, _)
Deliver(lg, ms) ==
    IF ms = << >> THEN lg
    ELSE LET m == Head(ms)
             p == PartitionOf(m.key)
         IN  Deliver([lg EXCEPT ![p] = Append(@, m)], Tail(ms))

-----------------------------------------------------------------------------
(* Observations of a run.  None of them is read by the program.            *)

HistInit ==
    [ checkNow      |-> 0,      \* time.time() read by the last token check
      checkToken    |-> None,   \* the token the last check found
      checkExpires5 |-> 0,      \* the expiry the last check found
      checkIssuedAt |-> 0,      \* when the token it found was obtained
      checkIssuedTtl |-> 0,     \* and the lifetime it was obtained with
      tickExchanges |-> 0,      \* credential exchanges of the current tick
      issuedAt      |-> 0,      \* time the token held was obtained
      issuedTtl     |-> 0,      \* lifetime it was obtained with
      apiWithNone   |-> FALSE,  \* an API request carried "Bearer None"
      published     |-> 0,      \* records handed to the log client
      srcLast       |-> [a \in Identifiers |-> 0],
                                \* last_contact the API last served, per aircraft
      regressed     |-> FALSE,
      lastPoll      |-> "none", \* how the last API request ended
      requestAt     |-> 0,      \* when it returned
      sleeps        |-> 0,      \* sleeps of the loop since it returned
      slept         |-> {},     \* the kinds of tick a sleep has followed
      starts        |-> 0,      \* times the Consumer process was started
      polled        |-> "none", \* what the poll of this iteration returned:
                                \* "message", "timeout", "error"
      lastError     |-> "none", \* the error logged in this iteration
      writes        |-> 0,      \* executemany calls of this Consumer process
      lastBatch     |-> << >>,  \* the rows the last executemany was given
      lastWriteBy   |-> "none", \* "loop" or "final": who called it
      lastWriteOk   |-> FALSE,  \* whether it returned
      failedBatch   |-> << >>,  \* the buffer at the last failed write, until
                                \* a write succeeds
      buffered      |-> 0,      \* records buffered since the last write
                                \* that succeeded
      stopBuffer    |-> << >>,  \* the buffer when the loop was left
      finalWrites   |-> 0,      \* executemany calls of the shutdown path
      crashLost     |-> {},     \* keys buffered, not stored, when killed
      appeared      |-> << >>,  \* keys of the store, in order of appearance
      overwrote     |-> FALSE,  \* a write of this process met a key the
                                \* table already held
      prior         |-> EmptyBag,   \* the table before the first bulk write
      applied       |-> 0,      \* bulk writes of one batch to that table
      once          |-> EmptyBag,   \* the table after the first of them
      expected      |-> << >> ] \* the fields a row is to carry, by position

-----------------------------------------------------------------------------
(* Producer: get_token (producer.py:51-79)                                 *)

(* expires_at = time.time() + expires_in * 0.8, in fifths of a second *)
ExpiresAt5(t, expires_in) == 5 * t + 4 * expires_in

NeedsTokenAtExpiry(token, exp5, t) == token = None \/ 5 * t >= exp5

(* token_info['access_token'] is None or time.time() > expires_at *)
NeedsToken(token, exp5, t) == token = None \/ 5 * t > exp5

(* The replies of the auth endpoint that get_token stores: a JSON object   *)
(* with or without access_token and with or without expires_in.            *)
TokenReplies ==
    { [access_token |-> "token", expires_in |-> ttl] : ttl \in TTLs }
    \cup { [access_token |-> "token", expires_in |-> DefaultExpiresIn] }
    \cup { [access_token |-> None, expires_in |-> DefaultExpiresIn] }

(* the replies that carry a token *)
GoodReplies == { r \in TokenReplies : r.access_token # None }

(* line 86 finds the token usable: get_token is not called.  (TickCap     *)
(* bounds the polls of a run.)                                             *)
PKeepToken(TickCap) ==
    /\ ppc = "tick"
    /\ polls < TickCap
    /\ ~NeedsToken(access_token, expires_at5, now)
    /\ ppc' = "request"
    /\ hist' = [hist EXCEPT !.checkNow = now, !.checkToken = access_token,
                            !.checkExpires5 = expires_at5,
                            !.checkIssuedAt = hist.issuedAt,
                            !.checkIssuedTtl = hist.issuedTtl, !.tickExchanges = 0]
    /\ UNCHANGED <<access_token, expires_at5, now, events, idx, pending, polls,
                   log, consVars>>

(* get_token, lines 63-75: the POST returns a JSON object, whatever the    *)
(* status of the response; its access_token (None when absent) and the     *)
(* expiry computed from expires_in (1800 when absent) are stored.  The     *)
(* call takes d seconds, for a d of Delays, and returns a reply of Replies. *)
PGetTokenStore(TickCap, Delays, Replies) ==
    /\ ppc = "tick"
    /\ polls < TickCap
    /\ NeedsToken(access_token, expires_at5, now)
    /\ \E reply \in Replies, d \in Delays :
          /\ now' = now + d
          /\ access_token' = reply.access_token
          /\ expires_at5' = ExpiresAt5(now + d, reply.expires_in)
          /\ hist' = [hist EXCEPT !.checkNow = now, !.checkToken = access_token,
                                  !.checkExpires5 = expires_at5,
                                  !.checkIssuedAt = hist.issuedAt,
                                  !.checkIssuedTtl = hist.issuedTtl,
                                  !.tickExchanges = @ + 1,
                                  !.issuedAt = now + d,
                                  !.issuedTtl = reply.expires_in]
    /\ ppc' = "request"
    /\ UNCHANGED <<events, idx, pending, polls, log, consVars>>

(* get_token, lines 76-79: requests.post or response.json() raises (no     *)
(* connection, a body that is not JSON): SystemExit(1).                    *)
PGetTokenExit(TickCap, Delays) ==
    /\ ppc = "tick"
    /\ polls < TickCap
    /\ NeedsToken(access_token, expires_at5, now)
    /\ \E d \in Delays : now' = now + d
    /\ ppc' = "exited"
    /\ hist' = [hist EXCEPT !.checkNow = now, !.checkToken = access_token,
                            !.checkExpires5 = expires_at5,
                            !.checkIssuedAt = hist.issuedAt,
                            !.checkIssuedTtl = hist.issuedTtl,
                            !.tickExchanges = @ + 1]
    /\ UNCHANGED <<access_token, expires_at5, events, idx, pending, polls,
                   log, consVars>>

-----------------------------------------------------------------------------
(* Producer: get_events (producer.py:89-103) and main (105-174)            *)

IsIdent(v) == v.t = "str" /\ v.s \in Identifiers

(* the last_contact the snapshot s serves last for aircraft a, or dflt *)
RECURSIVE LastServed(_, _, _)
LastServed(s, a, dflt) ==
    IF s = << >> THEN dflt
    ELSE LET v == s[Len(s)]
         IN  IF Len(v) >= 5 /\ v[1] = JStr(a) /\ v[5].t = "int"
             THEN v[5].v
             ELSE LastServed(SubSeq(s, 1, Len(s) - 1), a, dflt)

(* some vector of s carries a last_contact below an earlier one (of s or   *)
(* of the snapshots before, in last) of the same aircraft                  *)
Regresses(s, last) ==
    \E i \in 1..Len(s) :
        /\ Len(s[i]) >= 5 /\ IsIdent(s[i][1]) /\ s[i][5].t = "int"
        /\ s[i][5].v < LastServed(SubSeq(s, 1, i - 1), s[i][1].s,
                                  last[s[i][1].s])

(* events and events.get('states'), line 144 *)
HasStates(states) == states # << >>

StalePollResult(previous) == previous

(* what main has as the states of a tick whose request failed: get_events  *)
(* returned None (line 103), whatever the tick before had                   *)
FailedPollResult(previous) == << >>

(* lines 94-103: the GET raises (no connection, a timeout of the           *)
(* transport) or raise_for_status() does (a status that is not 2xx), or    *)
(* the body is no JSON: the exception is printed and None returned          *)
PRequestFail(Delays) ==
    /\ ppc = "request"
    /\ \E d \in Delays : now' = now + d
    /\ polls' = polls + 1
    /\ events' = FailedPollResult(events)
    /\ idx' = 1
    /\ ppc' = IF HasStates(FailedPollResult(events)) THEN "publish" ELSE "sleep"
    /\ hist' = [hist EXCEPT !.apiWithNone = @ \/ access_token = None,
                            !.lastPoll = "failed",
                            !.requestAt = now', !.sleeps = 0]
    /\ UNCHANGED <<access_token, expires_at5, pending, log, consVars>>

(* lines 94-100 and 144-148: the GET succeeds with a snapshot s of Served  *)
(* as its 'states'; an empty or null 'states' goes straight to the sleep.  *)
PRequestOk(Delays, Served) ==
    /\ ppc = "request"
    /\ \E d \in Delays, s \in Served :
          /\ hist.published + Len(s) <= MaxPublished
          /\ now' = now + d
          /\ events' = s
          /\ ppc' = IF HasStates(s) THEN "publish" ELSE "sleep"
          /\ hist' = [hist EXCEPT
                        !.apiWithNone = @ \/ access_token = None,
                        !.lastPoll = "served",
                        !.requestAt = now + d, !.sleeps = 0,
                        !.regressed = @ \/ Regresses(s, hist.srcLast),
                        !.srcLast = [a \in Identifiers |->
                                        LastServed(s, a, hist.srcLast[a])]]
    /\ polls' = polls + 1
    /\ idx' = 1
    /\ UNCHANGED <<access_token, expires_at5, pending, log, consVars>>

(* the message produce() is called with, lines 153-168; tick is the number *)
(* of the poll it comes from, which only the observations read             *)
ProducedMessage(state_vector, tick) ==
    LET keyed_state_vector == ZipKeys(state_vector)
    IN  [ key   |-> KeyString(keyed_state_vector),
          value |-> JsonDumps(keyed_state_vector),
          tick  |-> tick ]

(* one pass of the for loop, lines 151-168 *)
PProduce ==
    /\ ppc = "publish"
    /\ HasKey(ZipKeys(events[idx]), "icao24")
    /\ pending' = Append(pending, ProducedMessage(events[idx], polls))
    /\ idx' = idx + 1
    /\ ppc' = IF idx = Len(events) THEN "flush" ELSE "publish"
    /\ hist' = [hist EXCEPT !.published = @ + 1]
    /\ UNCHANGED <<access_token, expires_at5, now, events, polls, log, consVars>>

(* line 161 on a vector without fields: KeyError, which nothing catches *)
PProduceKeyError ==
    /\ ppc = "publish"
    /\ ~HasKey(ZipKeys(events[idx]), "icao24")
    /\ ppc' = "crashed"
    /\ UNCHANGED <<access_token, expires_at5, now, events, idx, pending, polls,
                   log, consVars, hist>>

(* the log client sends queued records in the background (linger.ms = 5) *)
PDeliverOne ==
    /\ ppc \in {"publish", "flush"}
    /\ pending # << >>
    /\ log' = Deliver(log, <<Head(pending)>>)
    /\ pending' = Tail(pending)
    /\ UNCHANGED <<access_token, expires_at5, now, ppc, events, idx, polls,
                   consVars, hist>>

FlushReturnsAtOnce(q) == q

(* what producer.flush() leaves in the queue and in the log, line 171 *)
FlushedQueue(q) == << >>
FlushedLog(lg, q) == Deliver(lg, q)

PFlush ==
    /\ ppc = "flush"
    /\ log' = FlushedLog(log, pending)
    /\ pending' = FlushedQueue(pending)
    /\ ppc' = "sleep"
    /\ UNCHANGED <<access_token, expires_at5, now, events, idx, polls,
                   consVars, hist>>

NoSleep(t) == t

(* the clock after time.sleep(poll_interval) called at time t, line 174 *)
SleepUntil(t) == t + poll_interval

(* the kind of tick that ends: its request failed, it had no states, or it *)
(* published                                                               *)
TickKind ==
    IF hist.lastPoll = "failed" THEN "failed"
    ELSE IF HasStates(events) THEN "published" ELSE "empty"

(* time.sleep(poll_interval), line 174; the next tick starts *)
PSleep ==
    /\ ppc = "sleep"
    /\ now' = SleepUntil(now)
    /\ ppc' = "tick"
    /\ hist' = [hist EXCEPT !.tickExchanges = 0, !.sleeps = @ + 1,
                            !.slept = @ \cup {TickKind}]
    /\ UNCHANGED <<access_token, expires_at5, events, idx, pending, polls,
                   log, consVars>>

PLoop == {"tick", "request", "publish", "flush", "sleep"}

(* KeyboardInterrupt anywhere in the loop: nothing in main catches it, the *)
(* handler of lines 178-182 swallows it and the process ends.  No          *)
(* producer.flush() runs on that path: what the log client still queues    *)
(* is not sent.                                                            *)
PInterrupt ==
    /\ ppc \in PLoop
    /\ ppc' = "interrupted"
    /\ UNCHANGED <<access_token, expires_at5, now, events, idx, pending, polls,
                   log, consVars, hist>>

(* The Producer in an environment whose HTTP calls take a time of Delays,  *)
(* whose auth endpoint answers with a reply of Replies and whose API       *)
(* serves the snapshots of Served, observed for TickCap polls.             *)
ProducerStep(TickCap, Delays, Replies, Served) ==
    \/ PKeepToken(TickCap)
    \/ PGetTokenStore(TickCap, Delays, Replies)
    \/ PGetTokenExit(TickCap, Delays)
    \/ PRequestFail(Delays)
    \/ PRequestOk(Delays, Served)
    \/ PProduce
    \/ PProduceKeyError
    \/ PDeliverOne
    \/ PFlush
    \/ PSleep
    \/ PInterrupt

EmptyLog == [p \in Partitions |-> << >>]

ProducerInit ==
    /\ access_token = None
    /\ expires_at5 = 0
    /\ now = 0
    /\ ppc = "tick"
    /\ events = << >>
    /\ idx = 1
    /\ pending = << >>
    /\ polls = 0

ConsumerIdle ==
    /\ cpc = "off"
    /\ message = None
    /\ events_to_insert = << >>
    /\ messages_processed = 0
    /\ position = [p \in Partitions |-> 0]
    /\ committed = [p \in Partitions |-> 0]
    /\ store = EmptyBag
    /\ con_open = FALSE
    /\ subscribed = FALSE
    /\ escaped = FALSE

(* The Producer alone, publishing to an empty topic.  HTTP calls take no  *)
(* time to speak of and the API serves every snapshot.                     *)
InitProducer == ProducerInit /\ ConsumerIdle /\ log = EmptyLog /\ hist = HistInit

NextProducer == ProducerStep(MaxTicks, {0}, GoodReplies, Snapshots)

SpecProducer == InitProducer /\ [][NextProducer]_vars

(* The Token Manager over many ticks: HTTP calls take 0..MaxDelay seconds  *)
(* and the API has no aircraft in the bounding box (or fails).             *)
NextToken ==
    \/ PKeepToken(MaxTokenTicks)
    \/ PGetTokenStore(MaxTokenTicks, 0..MaxDelay, TokenReplies)
    \/ PGetTokenExit(MaxTokenTicks, 0..MaxDelay)
    \/ PRequestFail(0..MaxDelay)
    \/ PRequestOk(0..MaxDelay, {<< >>})
    \/ PSleep

SpecToken == InitProducer /\ [][NextToken]_vars

-----------------------------------------------------------------------------
(* Consumer: the store (consumer.py:52-81)                                 *)

(* json.loads(value.decode('utf-8')): fails on bytes that are no JSON      *)
(* text; gives a dict for an object and another value otherwise.           *)
JsonLoads(value) ==
    CASE value.kind = "object" -> [ok |-> TRUE, dict |-> TRUE, data |-> value.members]
      [] value.kind = "invalid" -> [ok |-> FALSE, dict |-> FALSE, data |-> << >>]
      [] OTHER -> [ok |-> TRUE, dict |-> FALSE, data |-> << >>]

(* tuple([data.get(key) for key in state_vector_keys]), lines 95-96 *)
RowTuple(data) ==
    [i \in 1..Len(consumer_state_vector_keys) |->
        Get(data, consumer_state_vector_keys[i])]

(* PRIMARY KEY (icao24, last_contact) *)
RowKey(row) == <<row[1], row[5]>>

(* the NOT NULL columns: icao24, last_contact, on_ground, spi *)
ViolatesNotNull(row) ==
    row[1] = JNull \/ row[5] = JNull \/ row[9] = JNull \/ row[16] = JNull

(* the rows of a table, and the keys they carry *)
Rows(table) == BagToSet(table)
Keys(table) == { RowKey(r) : r \in Rows(table) }

(* the rows of a table that do not carry the key of row *)
OtherKeys(table, row) ==
    [r \in { x \in Rows(table) : RowKey(x) # RowKey(row) } |-> table[r]]

InsertOrAppend(table, row) == table (+) SetToBag({row})

InsertOrIgnore(table, row) ==
    IF RowKey(row) \in Keys(table) THEN table ELSE table (+) SetToBag({row})

(* INSERT OR REPLACE INTO airspace of one row that meets the constraints:  *)
(* the row that holds its primary key, if any, is replaced by it            *)
InsertOrReplace(table, row) == OtherKeys(table, row) (+) SetToBag({row})

(* executemany runs the statement once per row, in order, each in its own  *)
(* implicit transaction: the table after the first n rows went in          *)
RECURSIVE ApplyRows(_, _, _)
ApplyRows(table, rows, n) ==
    IF n = 0 THEN table
    ELSE InsertOrReplace(ApplyRows(table, rows, n - 1), rows[n])

(* the keys that n rows bring to a table that did not hold them, in order *)
RECURSIVE NewKeys(_, _, _)
NewKeys(table, rows, n) ==
    IF n = 0 THEN << >>
    ELSE LET before == NewKeys(table, rows, n - 1)
             held == Keys(ApplyRows(table, rows, n - 1))
         IN  IF RowKey(rows[n]) \in held THEN before
             ELSE Append(before, RowKey(rows[n]))

AllInsertable(rows) == Len(rows)

(* rows that go in before the statement raises: all of them when no row    *)
(* violates a constraint, else those before the first that does            *)
Insertable(rows) ==
    IF \E i \in 1..Len(rows) : ViolatesNotNull(rows[i])
    THEN (CHOOSE i \in 1..Len(rows) :
             /\ ViolatesNotNull(rows[i])
             /\ \A j \in 1..(i - 1) : ~ViolatesNotNull(rows[j])) - 1
    ELSE Len(rows)

StoreKeys == Keys(store)

(* con.executemany(insert_query, rows) of a store that does not fail: the  *)
(* rows go in up to the first that violates a constraint                    *)
ExecuteMany(table, rows) == ApplyRows(table, rows, Insertable(rows))

-----------------------------------------------------------------------------
(* Consumer: main (consumer.py:26-129)                                     *)

Running == {"poll", "got", "flush", "written", "counted"}

ThresholdExceeded(n) == n > FlushThreshold

(* len(events_to_insert) >= 2000, line 100 *)
ThresholdReached(n) == n >= FlushThreshold

OffsetsStoredAtPoll(offsets, p, o) == [offsets EXCEPT ![p] = o]

(* The offsets committed for the group after a poll returned the message   *)
(* at offset o of partition p: main never calls store_offsets() or         *)
(* commit() on the consumer, so they stay as they were.                    *)
OffsetsAfterPoll(offsets, p, o) == offsets

(* lines 30-84: the process starts, opens the store and subscribes; the    *)
(* subscription resumes from the committed offsets ('earliest' without)    *)
CStart ==
    /\ cpc \in {"off", "stopped", "dead"}
    /\ hist.starts <= MaxRestarts
    /\ cpc' = "poll"
    /\ message' = None
    /\ events_to_insert' = << >>
    /\ messages_processed' = 0
    /\ position' = committed
    /\ con_open' = TRUE
    /\ subscribed' = TRUE
    /\ escaped' = FALSE
    /\ hist' = [hist EXCEPT !.starts = @ + 1, !.polled = "none",
                            !.lastError = "none", !.writes = 0,
                            !.lastBatch = << >>, !.lastWriteBy = "none",
                            !.lastWriteOk = FALSE, !.failedBatch = << >>,
                            !.buffered = 0, !.overwrote = FALSE,
                            !.stopBuffer = << >>, !.finalWrites = 0]
    /\ UNCHANGED <<prodVars, log, committed, store>>

(* line 87 returns the next message of a partition *)
CPollMessage ==
    /\ cpc = "poll"
    /\ \E p \in Partitions :
          /\ position[p] < Len(log[p])
          /\ message' = log[p][position[p] + 1]
          /\ position' = [position EXCEPT ![p] = @ + 1]
          /\ committed' = OffsetsAfterPoll(committed, p, position[p] + 1)
    /\ cpc' = "got"
    /\ hist' = [hist EXCEPT !.polled = "message", !.lastError = "none"]
    /\ UNCHANGED <<prodVars, log, events_to_insert, messages_processed, store,
                   con_open, subscribed, escaped>>

FlushWhenIdle(n) == IF n > 0 THEN "flush" ELSE "poll"

(* where the branch of lines 110-112 leaves the loop, with n rows in the   *)
(* buffer: it logs, sleeps and the next iteration polls                     *)
AfterIdlePoll(n) == "poll"

(* line 87 times out: lines 110-112 *)
CPollNone ==
    /\ cpc = "poll"
    /\ cpc' = AfterIdlePoll(Len(events_to_insert))
    /\ hist' = [hist EXCEPT !.polled = "timeout", !.lastError = "none"]
    /\ UNCHANGED <<prodVars, log, message, events_to_insert,
                   messages_processed, position, committed, store, con_open,
                   subscribed, escaped>>

(* line 87 returns a message whose error() is set: neither branch runs *)
CPollError ==
    /\ cpc = "poll"
    /\ hist' = [hist EXCEPT !.polled = "error", !.lastError = "none"]
    /\ UNCHANGED <<prodVars, log, consVars>>

(* line 91, outside the inner try: the value is no JSON text, the          *)
(* exception leaves the while loop and the finally block runs              *)
CParseAbort ==
    /\ cpc = "got"
    /\ ~JsonLoads(message.value).ok
    /\ cpc' = "finally"
    /\ escaped' = TRUE
    /\ hist' = [hist EXCEPT !.stopBuffer = events_to_insert]
    /\ UNCHANGED <<prodVars, log, message, events_to_insert,
                   messages_processed, position, committed, store, con_open,
                   subscribed>>

(* line 95 on a JSON value that is no object: AttributeError, caught at    *)
(* line 108                                                                 *)
CDropNonObject ==
    /\ cpc = "got"
    /\ JsonLoads(message.value).ok
    /\ ~JsonLoads(message.value).dict
    /\ cpc' = "poll"
    /\ hist' = [hist EXCEPT !.lastError = "failed to insert"]
    /\ UNCHANGED <<prodVars, log, message, events_to_insert,
                   messages_processed, position, committed, store, con_open,
                   subscribed, escaped>>

(* lines 94-100: the row is appended; at the threshold the write is next *)
CAppend ==
    /\ cpc = "got"
    /\ JsonLoads(message.value).dict
    /\ events_to_insert' =
          Append(events_to_insert, RowTuple(JsonLoads(message.value).data))
    /\ cpc' = IF ThresholdReached(Len(events_to_insert) + 1)
              THEN "flush" ELSE "poll"
    /\ hist' = [hist EXCEPT !.buffered = @ + 1]
    /\ UNCHANGED <<prodVars, log, message, messages_processed, position,
                   committed, store, con_open, subscribed, escaped>>

(* the observations of an executemany call that put n rows in *)
Wrote(who, ok, n) ==
    [hist EXCEPT !.writes = @ + 1,
                 !.lastBatch = events_to_insert,
                 !.lastWriteBy = who,
                 !.lastWriteOk = ok,
                 !.failedBatch = IF ok THEN << >> ELSE events_to_insert,
                 !.buffered = IF ok THEN 0 ELSE @,
                 !.finalWrites = IF who = "final" THEN @ + 1 ELSE @,
                 !.lastError = IF ok THEN "none"
                               ELSE IF who = "final" THEN "failed to commit"
                               ELSE "failed to insert",
                 !.appeared = @ \o NewKeys(store, events_to_insert, n),
                 !.overwrote =
                     @ \/ Len(NewKeys(store, events_to_insert, n)) < n]

BufferDroppedOnFailure(buffer) == << >>

(* the buffer the handler of line 108 leaves behind *)
BufferAfterFailedWrite(buffer) == buffer

(* line 101 returns: every row of the buffer went in *)
CFlushOk ==
    /\ cpc = "flush"
    /\ Insertable(events_to_insert) = Len(events_to_insert)
    /\ store' = ApplyRows(store, events_to_insert, Len(events_to_insert))
    /\ cpc' = "written"
    /\ hist' = Wrote("loop", TRUE, Len(events_to_insert))
    /\ UNCHANGED <<prodVars, log, message, events_to_insert,
                   messages_processed, position, committed, con_open,
                   subscribed, escaped>>

(* line 101 raises after n rows went in (a constraint of row n + 1, or the *)
(* store failing at any row); lines 108-109 log it                         *)
CFlushFail ==
    /\ cpc = "flush"
    /\ \E n \in 0..Insertable(events_to_insert) :
          /\ n < Len(events_to_insert)
          /\ store' = ApplyRows(store, events_to_insert, n)
          /\ hist' = Wrote("loop", FALSE, n)
    /\ events_to_insert' = BufferAfterFailedWrite(events_to_insert)
    /\ cpc' = "poll"
    /\ UNCHANGED <<prodVars, log, message, messages_processed, position,
                   committed, con_open, subscribed, escaped>>

(* lines 102-105 *)
CCount ==
    /\ cpc = "written"
    /\ messages_processed' = messages_processed + Len(events_to_insert)
    /\ cpc' = "counted"
    /\ UNCHANGED <<prodVars, log, message, events_to_insert, position,
                   committed, store, con_open, subscribed, escaped, hist>>

(* line 107 *)
CClear ==
    /\ cpc = "counted"
    /\ events_to_insert' = << >>
    /\ cpc' = "poll"
    /\ UNCHANGED <<prodVars, log, message, messages_processed, position,
                   committed, store, con_open, subscribed, escaped, hist>>

(* KeyboardInterrupt anywhere in the loop: lines 113-115 *)
CInterrupt ==
    /\ cpc \in Running
    /\ cpc' = "finally"
    /\ hist' = [hist EXCEPT !.stopBuffer = events_to_insert,
                            !.polled = "none"]
    /\ UNCHANGED <<prodVars, log, message, events_to_insert,
                   messages_processed, position, committed, store, con_open,
                   subscribed, escaped>>

(* lines 116-121: the final write returns *)
CFinalFlushOk ==
    /\ cpc = "finally"
    /\ Len(events_to_insert) > 0 /\ con_open
    /\ Insertable(events_to_insert) = Len(events_to_insert)
    /\ store' = ApplyRows(store, events_to_insert, Len(events_to_insert))
    /\ messages_processed' = messages_processed + Len(events_to_insert)
    /\ cpc' = "closing"
    /\ hist' = Wrote("final", TRUE, Len(events_to_insert))
    /\ UNCHANGED <<prodVars, log, message, events_to_insert, position,
                   committed, con_open, subscribed, escaped>>

RetryFinalWrite == "finally"

(* where the handler of lines 122-123 leaves the shutdown path: it logs,   *)
(* and the closes of lines 124-129 are next                                 *)
AfterFailedFinalWrite == "closing"

(* lines 117-123: the final write raises after n rows went in *)
CFinalFlushFail ==
    /\ cpc = "finally"
    /\ Len(events_to_insert) > 0 /\ con_open
    /\ \E n \in 0..Insertable(events_to_insert) :
          /\ n < Len(events_to_insert)
          /\ store' = ApplyRows(store, events_to_insert, n)
          /\ hist' = Wrote("final", FALSE, n)
    /\ cpc' = AfterFailedFinalWrite
    /\ UNCHANGED <<prodVars, log, message, events_to_insert,
                   messages_processed, position, committed, con_open,
                   subscribed, escaped>>

(* line 116 with an empty buffer *)
CFinalSkip ==
    /\ cpc = "finally"
    /\ Len(events_to_insert) = 0
    /\ cpc' = "closing"
    /\ UNCHANGED <<prodVars, log, message, events_to_insert,
                   messages_processed, position, committed, store, con_open,
                   subscribed, escaped, hist>>

(* lines 124-126 *)
CCloseStore ==
    /\ cpc = "closing"
    /\ con_open' = FALSE
    /\ cpc' = "closed_store"
    /\ UNCHANGED <<prodVars, log, message, events_to_insert,
                   messages_processed, position, committed, store, subscribed,
                   escaped, hist>>

(* lines 128-129; an escaped exception then ends the process *)
CCloseLog ==
    /\ cpc = "closed_store"
    /\ subscribed' = FALSE
    /\ cpc' = "stopped"
    /\ UNCHANGED <<prodVars, log, message, events_to_insert,
                   messages_processed, position, committed, store, con_open,
                   escaped, hist>>

(* the process is killed: nothing of lines 113-129 runs and the buffer,    *)
(* which lives in memory, is gone                                           *)
CKill ==
    /\ cpc \in Running
    /\ cpc' = "dead"
    /\ con_open' = FALSE
    /\ subscribed' = FALSE
    /\ hist' = [hist EXCEPT !.polled = "none", !.crashLost =
                    @ \cup ({ RowKey(events_to_insert[i]) :
                                 i \in 1..Len(events_to_insert) } \ StoreKeys)]
    /\ UNCHANGED <<prodVars, log, message, events_to_insert,
                   messages_processed, position, committed, store, escaped>>

ConsumerNext ==
    \/ CStart
    \/ CPollMessage
    \/ CPollNone
    \/ CPollError
    \/ CParseAbort
    \/ CDropNonObject
    \/ CAppend
    \/ CFlushOk
    \/ CFlushFail
    \/ CCount
    \/ CClear
    \/ CInterrupt
    \/ CFinalFlushOk
    \/ CFinalFlushFail
    \/ CFinalSkip
    \/ CCloseStore
    \/ CCloseLog
    \/ CKill

(* The messages a topic can hold when the Consumer starts: records of the  *)
(* Producer, among them one the store rejects (null on_ground), and        *)
(* values of other origin: bytes that are no JSON, JSON that is no object  *)
MessagePool ==
    { ProducedMessage(RawVector(JStr("a1b2c3"), JInt(c), JBool(FALSE)), 0) :
          c \in 1..MaxContact }
    \cup { ProducedMessage(RawVector(JStr("d4e5f6"), JInt(1), JBool(FALSE)), 0),
           ProducedMessage(RawVector(JStr("a1b2c3"), JInt(1), JBool(TRUE)), 0),
           ProducedMessage(RawVector(JStr("d4e5f6"), JInt(1), JNull), 0),
           [key |-> <<"ICAO_", "d4e5f6">>, value |-> [kind |-> "invalid"],
            tick |-> 0],
           [key |-> <<"ICAO_", "a1b2c3">>, value |-> [kind |-> "array"],
            tick |-> 0] }

PublishHistories == UNION { [1..n -> MessagePool] : n \in 0..MaxLog }

(* The Consumer alone, on a topic that holds up to MaxLog messages *)
InitConsumer ==
    /\ ProducerInit
    /\ ConsumerIdle
    /\ \E h \in PublishHistories : log = Deliver(EmptyLog, h)
    /\ hist = HistInit

SpecConsumer == InitConsumer /\ [][ConsumerNext]_vars

-----------------------------------------------------------------------------
(* The sink alone: one batch written to an arbitrary table, repeatedly     *)

(* the rows the Consumer builds from the records of MessagePool *)
RowPool ==
    { RowTuple(JsonLoads(m.value).data) :
          m \in { x \in MessagePool : JsonLoads(x.value).dict } }

(* the contents table airspace can have: every row meets the NOT NULL      *)
(* constraints and no two rows share the primary key                       *)
PriorStores ==
    { SetToBag(S) : S \in
        { T \in SUBSET { r \in RowPool : ~ViolatesNotNull(r) } :
            \A r1, r2 \in T : RowKey(r1) = RowKey(r2) => r1 = r2 } }

Batches == UNION { [1..n -> RowPool] : n \in 0..MaxBatch }

InitSink ==
    /\ ProducerInit
    /\ log = EmptyLog
    /\ cpc = "flush"
    /\ message = None
    /\ messages_processed = 0
    /\ position = [p \in Partitions |-> 0]
    /\ committed = [p \in Partitions |-> 0]
    /\ con_open = TRUE
    /\ subscribed = TRUE
    /\ escaped = FALSE
    /\ \E table \in PriorStores, rows \in Batches :
          /\ store = table
          /\ events_to_insert = rows
          /\ hist = [HistInit EXCEPT !.prior = table]

(* con.executemany(insert_query, events_to_insert), lines 101 and 118 *)
SinkWrite ==
    /\ cpc = "flush"
    /\ hist.applied < MaxApplied
    /\ store' = ExecuteMany(store, events_to_insert)
    /\ hist' = [hist EXCEPT !.applied = @ + 1,
                            !.once = IF hist.applied = 0
                                     THEN ExecuteMany(store, events_to_insert)
                                     ELSE @]
    /\ UNCHANGED <<prodVars, log, cpc, message, events_to_insert,
                   messages_processed, position, committed, con_open,
                   subscribed, escaped>>

NextSink == SinkWrite

SpecSink == InitSink /\ [][NextSink]_vars

(* C11: idempotent sink: for every batch and every prior content of the   *)
(* table, the table after the batch was written to it twice (or more)      *)
(* holds the same rows as after it was written once.                       *)
C11_IdempotentSink == hist.applied >= 1 => store = hist.once

(* a batch was written twice to a table that held one of its keys with    *)
(* other values: the row was replaced and the second write changed nothing *)
C11_Witness ==
    /\ hist.applied = 2
    /\ store # hist.prior
    /\ \E i \in 1..Len(events_to_insert) :
          /\ RowKey(events_to_insert[i]) \in Keys(hist.prior)
          /\ ~BagIn(events_to_insert[i], hist.prior)
          /\ BagIn(events_to_insert[i], store)

-----------------------------------------------------------------------------
(* Properties of the Producer                                              *)

RECURSIVE SeqSum(_)
SeqSum(q) == IF q = << >> THEN 0 ELSE Head(q) + SeqSum(Tail(q))

LogSize == SeqSum([p \in Partitions |-> Len(log[p])])

(* the messages of the topic and of the client's queue *)
InFlight ==
    { pending[i] : i \in 1..Len(pending) }
    \cup UNION { { log[p][i] : i \in 1..Len(log[p]) } : p \in Partitions }

NullIdentifier(m) ==
    m.value.kind = "object" /\ Get(m.value.members, "icao24") = JNull

(* C6: the Producer never publishes a record whose aircraft identifier    *)
(* (icao24) is null or missing: no message handed to the log client or     *)
(* held by the topic carries a null identifier.                            *)
C6_NoNullIdentifierPublished == \A m \in InFlight : ~NullIdentifier(m)

(* C7: a failed credential exchange is fatal: once an exchange has left   *)
(* the Producer without a token the process has exited; no state-vector    *)
(* request is ever issued with an absent token, and no expiry is recorded  *)
(* for a token that was not obtained.                                      *)
C7_TokenFailureIsFatal ==
    /\ (hist.tickExchanges > 0 /\ access_token = None) => ppc = "exited"
    /\ ~hist.apiWithNone
    /\ access_token = None => expires_at5 = 0

(* C8: a token obtained at time t with lifetime ttl has the recorded      *)
(* expiry t + 0.8 * ttl; a tick that finds it at a time not later than     *)
(* that performs no credential exchange, and a tick that finds it strictly *)
(* later performs exactly one, before the API request.                     *)
C8_TokenRefreshTiming ==
    /\ access_token # None =>
          expires_at5 = 5 * hist.issuedAt + 4 * hist.issuedTtl
    /\ (ppc \in {"request", "exited"} /\ hist.checkToken # None) =>
          IF 5 * hist.checkNow <= 5 * hist.checkIssuedAt + 4 * hist.checkIssuedTtl
          THEN hist.tickExchanges = 0
          ELSE hist.tickExchanges = 1

(* a token of lifetime 100 was found more than 80 seconds after it was    *)
(* obtained and one exchange was made before the request                   *)
C8_Witness ==
    /\ ppc = "request"
    /\ hist.checkToken # None
    /\ hist.checkIssuedTtl = 100
    /\ hist.checkNow > hist.checkIssuedAt + 80
    /\ hist.tickExchanges = 1

(* C9: tick barrier: when the loop has moved past the flush (sleeping,    *)
(* or at the next poll) the log client holds no record, the queue only     *)
(* ever holds records of the current tick, no record handed to the client  *)
(* is lost, and in every partition the records of a tick precede those of  *)
(* the next tick.                                                          *)
C9_TickBarrier ==
    /\ ppc \in {"sleep", "tick", "request"} => pending = << >>
    /\ \A i \in 1..Len(pending) : pending[i].tick = polls
    /\ Len(pending) + LogSize = hist.published
    /\ \A p \in Partitions : \A i, j \in 1..Len(log[p]) :
          i < j => log[p][i].tick <= log[p][j].tick

(* the loop sleeps after a second publishing tick, and the topic holds    *)
(* records of two ticks                                                    *)
C9_Witness ==
    /\ ppc = "sleep"
    /\ pending = << >>
    /\ \E m1, m2 \in InFlight : m1.tick < m2.tick /\ m2.tick = polls

(* C13: a poll failure is transient: the step in which the API request  *)
(* fails (an exception or a status that is not 2xx) publishes nothing and  *)
(* leaves the Producer at its sleep, with one request counted; from the    *)
(* sleep the Producer goes to the next tick, unless it is stopped; and     *)
(* until the next request has been answered nothing is queued and the      *)
(* Producer has not crashed.                                               *)
C13_PollFailureTransient ==
    [][ /\ (polls' = polls + 1 /\ hist'.lastPoll = "failed") =>
              /\ ppc' = "sleep"
              /\ pending = << >> /\ pending' = << >>
              /\ log' = log
              /\ hist'.published = hist.published
        /\ (ppc = "sleep" /\ ppc' # ppc) => ppc' \in {"tick", "interrupted"}
        /\ hist'.lastPoll = "failed" =>
              /\ ppc' \in {"sleep", "tick", "request", "exited", "interrupted"}
              /\ pending' = << >> ]_vars

(* a tick published, the request of the next tick failed, and the Producer *)
(* is about to issue the request of the tick after that                    *)
C13_Witness ==
    /\ ppc = "request"
    /\ hist.lastPoll = "failed"
    /\ polls >= 2
    /\ hist.published >= 1
    /\ LogSize = hist.published

(* C16: rate limiting: every API request but the first is issued after  *)
(* exactly one sleep since the request before it returned, and not sooner  *)
(* than poll_interval seconds after that; and every sleep of the loop      *)
(* lasts poll_interval seconds.                                            *)
C16_RateLimit ==
    [][ /\ (polls' = polls + 1 /\ polls >= 1) =>
              /\ hist.sleeps = 1
              /\ now >= hist.requestAt + poll_interval
        /\ hist'.sleeps = hist.sleeps + 1 => now' = now + poll_interval ]_vars

(* three ticks have gone by, one that published, one without states and   *)
(* one whose request failed, each followed by its sleep                    *)
C16_Witness ==
    /\ polls = 3
    /\ ppc = "tick"
    /\ hist.slept = {"published", "empty", "failed"}
    /\ hist.sleeps = 1
    /\ now = 3 * poll_interval

-----------------------------------------------------------------------------
(* Properties of the Consumer                                              *)

IsPrefix(a, b) == Len(a) <= Len(b) /\ SubSeq(b, 1, Len(a)) = a

(* the last row of a batch that carries the key of its i-th row *)
LastOfKey(batch, i) ==
    batch[CHOOSE j \in i..Len(batch) :
              /\ RowKey(batch[j]) = RowKey(batch[i])
              /\ \A k \in (j + 1)..Len(batch) :
                    RowKey(batch[k]) # RowKey(batch[i])]

(* the message at offset o of partition p is a record the store accepts *)
Storable(m) ==
    /\ JsonLoads(m.value).dict
    /\ ~ViolatesNotNull(RowTuple(JsonLoads(m.value).data))

KeyOfMessage(m) == RowKey(RowTuple(JsonLoads(m.value).data))

Buffered(m) ==
    \E i \in 1..Len(events_to_insert) :
        events_to_insert[i] = RowTuple(JsonLoads(m.value).data)

(* C1: write-then-commit: every committed offset belongs to a record that *)
(* is in the store; and while the loop runs, a record of the topic that    *)
(* is not in the store is in the buffer, in hand, or still ahead of the    *)
(* subscription.  A kill before the write therefore loses nothing: the     *)
(* restart resumes from the committed offsets and meets the record again.  *)
C1_WriteThenCommit ==
    \A p \in Partitions : \A o \in 1..Len(log[p]) :
        (Storable(log[p][o]) /\ KeyOfMessage(log[p][o]) \notin StoreKeys) =>
            /\ o > committed[p]
            /\ cpc \in Running =>
                  \/ o > position[p]
                  \/ Buffered(log[p][o])
                  \/ cpc = "got" /\ message = log[p][o]

(* records that were buffered and not stored when the process was killed  *)
(* are in the store after the restart                                      *)
C1_Witness ==
    /\ hist.crashLost # {}
    /\ hist.crashLost \subseteq StoreKeys
    /\ hist.starts = 2
    /\ cpc \in Running

(* C2: a bulk write of the loop that fails is logged, leaves the buffer   *)
(* and the committed offsets as they were and the loop at its next poll;   *)
(* and every write attempt after a failed one is given the records of the  *)
(* failed batch, in their order, first.                                    *)
C2_FailedWriteKeepsBuffer ==
    [][ /\ (hist'.writes = hist.writes + 1 /\ ~hist'.lastWriteOk
              /\ hist'.lastWriteBy = "loop") =>
              /\ events_to_insert' = events_to_insert
              /\ committed' = committed
              /\ cpc' = "poll"
              /\ hist'.lastError = "failed to insert"
        /\ hist'.writes = hist.writes + 1 =>
              IsPrefix(hist.failedBatch, hist'.lastBatch) ]_vars

(* a write of the loop succeeded with more rows than the threshold: the   *)
(* rows of an earlier failed write were in it                              *)
C2_Witness ==
    /\ hist.lastWriteBy = "loop"
    /\ hist.lastWriteOk
    /\ hist.writes >= 2
    /\ Len(hist.lastBatch) > FlushThreshold
    /\ cpc = "written"

(* C3: a message whose value fails to parse as JSON is logged and dropped *)
(* and the loop goes on: no exception raised while a message is handled    *)
(* ever leaves the loop.                                                   *)
C3_MalformedDropped == ~escaped

(* C4: threshold flush: the loop calls the bulk write only with at least  *)
(* FlushThreshold rows and always with the entire buffer; a buffer that    *)
(* reaches the threshold is written in the same iteration, so that the     *)
(* next poll finds it below the threshold unless the write failed; and     *)
(* after a write that succeeded the buffer holds exactly the records       *)
(* received since.                                                         *)
C4_ThresholdFlush ==
    /\ hist.lastWriteBy = "loop" => Len(hist.lastBatch) >= FlushThreshold
    /\ cpc \in {"written", "counted"} =>
          /\ hist.lastBatch = events_to_insert
          /\ \A i \in 1..Len(events_to_insert) :
                BagIn(LastOfKey(events_to_insert, i), store)
    /\ cpc = "poll" =>
          Len(events_to_insert) < FlushThreshold \/ hist.failedBatch # << >>
    /\ cpc \in {"poll", "got", "flush"} =>
          Len(events_to_insert) = hist.buffered

(* the write triggered by the FlushThreshold-th record succeeded and the  *)
(* buffer is empty at the next poll                                        *)
C4_Witness ==
    /\ cpc = "poll"
    /\ hist.lastWriteBy = "loop"
    /\ hist.lastWriteOk
    /\ Len(hist.lastBatch) = FlushThreshold
    /\ events_to_insert = << >>
    /\ messages_processed = FlushThreshold

(* C5: shutdown flush: when the loop is left by an interrupt with a       *)
(* non-empty buffer, exactly one final bulk write is made, of exactly the  *)
(* buffered records; when it succeeds the offsets of the consumed messages *)
(* are committed; and the store connection and the subscription are still  *)
(* open when that is done.                                                 *)
C5_ShutdownFlush ==
    (cpc \in {"closing", "closed_store", "stopped"} /\ ~escaped
        /\ hist.stopBuffer # << >>) =>
        /\ hist.finalWrites = 1
        /\ hist.lastBatch = hist.stopBuffer
        /\ hist.lastWriteOk => committed = position
        /\ cpc = "closing" => con_open /\ subscribed

(* the messages of the topic *)
InLog ==
    UNION { { log[p][i] : i \in 1..Len(log[p]) } : p \in Partitions }

(* C12: key uniqueness under re-delivery: whatever writes, failed writes, *)
(* shutdown writes and restarts (which deliver the consumed messages       *)
(* again) have happened, the store holds every row once and no two rows    *)
(* with the same (icao24, last_contact); and after a write that succeeded  *)
(* the row held for each key of the batch is the last one the batch        *)
(* carried for it: a pair met again overwrites the row it finds.           *)
C12_KeyUniqueness ==
    /\ \A r \in Rows(store) : CopiesIn(r, store) = 1
    /\ \A r1, r2 \in Rows(store) : RowKey(r1) = RowKey(r2) => r1 = r2
    /\ (hist.writes > 0 /\ hist.lastWriteOk) =>
          \A i \in 1..Len(hist.lastBatch) :
              BagIn(LastOfKey(hist.lastBatch, i), store)

(* after a restart the messages of a topic whose records all differ in    *)
(* their key were delivered again, and the write met rows already stored   *)
C12_Witness ==
    /\ hist.starts = 2
    /\ hist.lastWriteOk
    /\ hist.overwrote
    /\ Cardinality(InLog) = LogSize
    /\ \A m1, m2 \in InLog :
          (Storable(m1) /\ Storable(m2) /\ KeyOfMessage(m1) = KeyOfMessage(m2))
              => m1 = m2
    /\ BagCardinality(store) >= 2

(* C14: a polled message that carries a delivery-level error is logged  *)
(* and skipped: the iteration that polled it logs an error, leaves the     *)
(* buffer, the store and the count as they were, and the loop is at its    *)
(* next poll.                                                              *)
C14_ErrorMessageSkipped ==
    [][ (cpc = "poll" /\ hist'.polled = "error") =>
            /\ events_to_insert' = events_to_insert
            /\ store' = store
            /\ messages_processed' = messages_processed
            /\ cpc' = "poll"
            /\ hist'.lastError # "none" ]_vars

-----------------------------------------------------------------------------
(* The pipeline: the Producer and the Consumer on one topic                *)

(* What the API serves in the pipeline: at most one vector, which is      *)
(* complete or has no fields at all                                        *)
PipelineSnapshots ==
    { s \in Snapshots :
        /\ Len(s) <= 1
        /\ \A i \in 1..Len(s) : Len(s[i]) > 0 => IsIdent(s[i][1]) }

(* What the topic holds before the Producer's first tick: nothing, or one  *)
(* value of other origin (the Consumer reads from 'earliest')              *)
ForeignHistories ==
    { h \in PublishHistories :
        /\ Len(h) <= 1
        /\ \A i \in 1..Len(h) : h[i].value.kind # "object" }

InitPipeline ==
    /\ ProducerInit
    /\ ConsumerIdle
    /\ \E h \in ForeignHistories : log = Deliver(EmptyLog, h)
    /\ hist = HistInit

NextPipeline ==
    \/ ProducerStep(MaxPipelineTicks, {0}, {[access_token |-> "token",
                           expires_in |-> DefaultExpiresIn]},
                    PipelineSnapshots)
    \/ ConsumerNext

SpecPipeline == InitPipeline /\ [][NextPipeline]_vars

Left == {"closing", "closed_store", "stopped"}

(* C17: the shutdown path runs whenever the loop is left by an exception  *)
(* (KeyboardInterrupt or another one) and is a single best-effort attempt: *)
(* an exception takes the loop to the shutdown path; the path makes at     *)
(* most one final bulk write, which it does make when the buffer is not    *)
(* empty; a final write that fails is logged and the path goes on; and     *)
(* the path closes the store connection, then the subscription.            *)
C17_ShutdownPath ==
    [][ /\ (cpc \in Running /\ cpc' \notin Running /\ cpc' # "dead") =>
              cpc' = "finally"
        /\ hist'.finalWrites <= 1
        /\ (cpc' \in Left /\ hist'.stopBuffer # << >>) => hist'.finalWrites = 1
        /\ (cpc = "finally" /\ hist'.finalWrites = hist.finalWrites + 1
                /\ ~hist'.lastWriteOk) =>
              /\ hist'.lastError = "failed to commit"
              /\ cpc' = "closing"
        /\ (cpc = "closing" /\ cpc' # cpc) =>
              (cpc' = "closed_store" /\ ~con_open')
        /\ (cpc = "closed_store" /\ cpc' # cpc) =>
              (cpc' = "stopped" /\ ~subscribed')
        /\ cpc' = "stopped" => (~con_open' /\ ~subscribed') ]_vars

(* an exception other than KeyboardInterrupt left the loop with a buffer  *)
(* whose final write failed; the path went on and closed both              *)
C17_Witness ==
    /\ cpc = "stopped"
    /\ escaped
    /\ hist.finalWrites = 1
    /\ ~hist.lastWriteOk
    /\ hist.lastError = "failed to commit"
    /\ ~con_open /\ ~subscribed

-----------------------------------------------------------------------------
(* One record on its way from the API to the Batch Buffer                  *)

(* a raw vector of n fields that differ from each other: the identifier,   *)
(* then the position of the field as its value; field k, if any, is null   *)
MarkedVector(n, k) ==
    [i \in 1..n |-> IF i = k THEN JNull
                    ELSE IF i = 1 THEN JStr("a1b2c3") ELSE JInt(i)]

(* a dict without its k-th member *)
WithoutMember(d, k) ==
    [i \in 1..(Len(d) - 1) |-> IF i < k THEN d[i] ELSE d[i + 1]]

(* a message of other origin: the record of a complete vector, with the    *)
(* k-th field left out                                                     *)
PartialMessage(k) ==
    [ key   |-> <<"ICAO_", "a1b2c3">>,
      value |-> JsonDumps(WithoutMember(
                    ZipKeys(MarkedVector(Len(state_vector_keys), 0)), k)),
      tick  |-> 0 ]

(* the first 17 fields of a vector, null where it has none *)
FirstFields(v) ==
    [i \in 1..Len(state_vector_keys) |-> IF i <= Len(v) THEN v[i] ELSE JNull]

ConsumerStarted ==
    /\ cpc = "poll"
    /\ message = None
    /\ events_to_insert = << >>
    /\ messages_processed = 0
    /\ position = [p \in Partitions |-> 0]
    /\ committed = [p \in Partitions |-> 0]
    /\ store = EmptyBag
    /\ con_open = TRUE
    /\ subscribed = TRUE
    /\ escaped = FALSE

(* Either the API has served one vector, which the Producer is about to    *)
(* publish to an empty topic, or the topic holds one partial message        *)
InitRoundTrip ==
    /\ access_token = "token"
    /\ expires_at5 = ExpiresAt5(0, DefaultExpiresIn)
    /\ now = 0
    /\ idx = 1
    /\ pending = << >>
    /\ polls = 1
    /\ ConsumerStarted
    /\ \/ \E n \in 0..MaxFields, k \in 0..MaxFields :
             /\ k <= n
             /\ events = << MarkedVector(n, k) >>
             /\ ppc = "publish"
             /\ log = EmptyLog
             /\ hist = [HistInit EXCEPT
                           !.starts = 1,
                           !.expected = FirstFields(MarkedVector(n, k))]
       \/ \E k \in 1..Len(state_vector_keys) :
             /\ events = << >>
             /\ ppc = "sleep"
             /\ log = Deliver(EmptyLog, << PartialMessage(k) >>)
             /\ hist = [HistInit EXCEPT
                           !.starts = 1,
                           !.expected =
                               MarkedVector(Len(state_vector_keys), k)]

NextRoundTrip ==
    \/ PProduce
    \/ PProduceKeyError
    \/ PDeliverOne
    \/ PFlush
    \/ CPollMessage
    \/ CAppend

SpecRoundTrip == InitRoundTrip /\ [][NextRoundTrip]_vars

(* C18: field-order round trip: the tuple the Consumer builds from the    *)
(* message published for a raw vector carries the first 17 fields of the   *)
(* vector, each at its position; and a field the message does not have is  *)
(* null at its position, the others staying where they belong.             *)
C18_FieldOrderRoundTrip ==
    \A i \in 1..Len(events_to_insert) :
        /\ Len(events_to_insert[i]) = Len(state_vector_keys)
        /\ events_to_insert[i] = hist.expected

(* the row of a vector of 17 fields that all differ is in the buffer *)
C18_Witness ==
    /\ Len(events) = 1
    /\ Len(events[1]) = Len(state_vector_keys)
    /\ \A i, j \in 1..Len(events[1]) : i # j => events[1][i] # events[1][j]
    /\ events_to_insert = << events[1] >>

(* C19: an idle poll changes nothing: the iteration whose poll timed out *)
(* logs no error and leaves the buffer, the store, the count and the       *)
(* offsets as they were and the loop at its next poll; and every bulk      *)
(* write is made either by an iteration that polled a message, or by the   *)
(* shutdown path.                                                          *)
C19_IdlePollChangesNothing ==
    [][ /\ hist'.polled = "timeout" =>
              /\ cpc = "poll" /\ cpc' = "poll"
              /\ events_to_insert' = events_to_insert
              /\ store' = store
              /\ messages_processed' = messages_processed
              /\ position' = position
              /\ hist'.writes = hist.writes
              /\ hist'.lastError = "none"
        /\ hist'.writes = hist.writes + 1 =>
              \/ /\ hist'.lastWriteBy = "loop"
                 /\ hist.polled = "message"
                 /\ ThresholdReached(Len(events_to_insert))
              \/ /\ hist'.lastWriteBy = "final"
                 /\ cpc = "finally" ]_vars

(* the topic is read to its end, a record waits in the buffer below the   *)
(* threshold, the last poll timed out and nothing was written              *)
C19_Witness ==
    /\ cpc = "poll"
    /\ hist.polled = "timeout"
    /\ Len(events_to_insert) >= 1
    /\ ~ThresholdReached(Len(events_to_insert))
    /\ \A p \in Partitions : position[p] = Len(log[p])
    /\ hist.writes = 0
    /\ store = EmptyBag

(* C20: interrupt at any point of the iteration: when the final write   *)
(* of the shutdown path succeeds, the store holds a row for every record   *)
(* that was in the buffer when the interrupt came, which is the last row   *)
(* the buffer carried for its key; and when the loop had already written   *)
(* that very batch (the interrupt came between the write and the clearing  *)
(* of the buffer), the second write leaves the store as it was.            *)
C20_InterruptAnywhere ==
    [][ (cpc = "finally" /\ ~escaped /\ hist'.finalWrites = hist.finalWrites + 1
            /\ hist'.lastWriteOk) =>
            /\ hist'.lastBatch = hist.stopBuffer
            /\ \A i \in 1..Len(hist.stopBuffer) :
                  /\ RowKey(hist.stopBuffer[i]) \in Keys(store')
                  /\ BagIn(LastOfKey(hist.stopBuffer, i), store')
            /\ (hist.lastWriteBy = "loop" /\ hist.lastWriteOk
                    /\ hist.lastBatch = hist.stopBuffer) => store' = store ]_vars

(* the interrupt came after the loop had written and counted the batch    *)
(* and before it cleared the buffer: the batch was written and counted a   *)
(* second time by the shutdown path                                        *)
C20_Witness ==
    /\ cpc = "closing"
    /\ ~escaped
    /\ hist.writes = 2
    /\ hist.finalWrites = 1
    /\ hist.lastWriteOk
    /\ ThresholdReached(Len(hist.stopBuffer))
    /\ messages_processed = 2 * Len(hist.stopBuffer)
    /\ \A i \in 1..Len(hist.stopBuffer) : BagIn(hist.stopBuffer[i], store)

(* the buffer holds a record that violates a NOT NULL constraint *)
Poisoned(buffer) == \E i \in 1..Len(buffer) : ViolatesNotNull(buffer[i])

(* a bulk write of the loop returns in this step *)
LoopWriteSucceeds ==
    /\ hist'.writes = hist.writes + 1
    /\ hist'.lastWriteBy = "loop"
    /\ hist'.lastWriteOk

(* C21 as stated: poison record: once a record that violates a store     *)
(* constraint is in the buffer, in every later step of the running loop    *)
(* no bulk write succeeds, the buffer only grows, and the store stays as   *)
(* it was (the write fails as a whole).                                    *)
C21_PoisonRecord ==
    [][ (Poisoned(events_to_insert) /\ cpc \in Running /\ cpc' \in Running) =>
            /\ ~LoopWriteSucceeds
            /\ IsPrefix(events_to_insert, events_to_insert')
            /\ store' = store ]_vars

(* C21, amended: once a record that violates a store constraint is in    *)
(* the buffer, in every later step of the running loop no bulk write       *)
(* succeeds, the buffer only grows and keeps the record, and the store     *)
(* changes only by rows that stand before the first such record in the     *)
(* buffer: a row it gains is one of them, and a row it loses gave its key  *)
(* to one of them.                                                         *)
C21_PoisonRecordAmended ==
    [][ (Poisoned(events_to_insert) /\ cpc \in Running /\ cpc' \in Running) =>
            /\ ~LoopWriteSucceeds
            /\ IsPrefix(events_to_insert, events_to_insert')
            /\ Poisoned(events_to_insert')
            /\ LET before == { events_to_insert[i] :
                                  i \in 1..Insertable(events_to_insert) }
               IN  /\ \A r \in Rows(store') :
                         CopiesIn(r, store') > CopiesIn(r, store) =>
                             r \in before
                   /\ \A r \in Rows(store) :
                         CopiesIn(r, store') < CopiesIn(r, store) =>
                             \E b \in before : RowKey(b) = RowKey(r)
                   /\ \A r \in Rows(store') : ~ViolatesNotNull(r) ]_vars

(* a record with a null on_ground stands second in the buffer; two bulk   *)
(* writes of the loop have failed, the buffer has grown past the threshold *)
(* and the store holds the row that stood before the record                *)
C21_Witness ==
    /\ cpc = "poll"
    /\ Poisoned(events_to_insert)
    /\ Insertable(events_to_insert) = 1
    /\ hist.writes = 2
    /\ hist.lastWriteBy = "loop"
    /\ ~hist.lastWriteOk
    /\ Len(events_to_insert) > FlushThreshold
    /\ BagIn(events_to_insert[1], store)
    /\ BagCardinality(store) = 1

(* C15: final flush on the stop signal: a Producer that was stopped, at  *)
(* whatever point of its tick, has exited with every record it handed to   *)
(* the log client delivered to the topic; and a Consumer that was stopped  *)
(* with a non-empty buffer has made its final bulk write of that buffer.   *)
C15_FinalFlushOnStop ==
    /\ ppc = "interrupted" =>
          /\ pending = << >>
          /\ LogSize >= hist.published
    /\ (cpc \in {"closing", "closed_store", "stopped"} /\ ~escaped
            /\ hist.stopBuffer # << >>) =>
          /\ hist.finalWrites = 1
          /\ hist.lastBatch = hist.stopBuffer

IsRecord(m) == m.value.kind = "object"
Identifier(m) == Get(m.value.members, "icao24")
Contact(m) == Get(m.value.members, "last_contact").v
SameAircraft(m1, m2) ==
    IsRecord(m1) /\ IsRecord(m2) /\ Identifier(m1) = Identifier(m2)

(* C10: per-aircraft ordering: two records of one aircraft carry the      *)
(* same key and lie in the same partition; and when the API never serves   *)
(* a last_contact below an earlier one of the same aircraft, the records   *)
(* of an aircraft stand in its partition with non-decreasing last_contact  *)
(* and their rows appear in the store in non-decreasing last_contact.      *)
C10_PerAircraftOrdering ==
    /\ \A m1, m2 \in InFlight : SameAircraft(m1, m2) => m1.key = m2.key
    /\ \A p1, p2 \in Partitions :
          \A i \in 1..Len(log[p1]) : \A j \in 1..Len(log[p2]) :
              SameAircraft(log[p1][i], log[p2][j]) => p1 = p2
    /\ ~hist.regressed =>
          /\ \A p \in Partitions : \A i, j \in 1..Len(log[p]) :
                (i < j /\ SameAircraft(log[p][i], log[p][j])) =>
                    Contact(log[p][i]) <= Contact(log[p][j])
          /\ \A i, j \in 1..Len(hist.appeared) :
                (i < j /\ hist.appeared[i][1] = hist.appeared[j][1]) =>
                    hist.appeared[i][2].v <= hist.appeared[j][2].v

(* records of one aircraft published in two ticks, with last_contact 1    *)
(* and then 2, have both appeared in the store                             *)
C10_Witness ==
    /\ ~hist.regressed
    /\ \E m1, m2 \in InFlight :
          /\ SameAircraft(m1, m2)
          /\ m1.tick < m2.tick
          /\ Contact(m1) < Contact(m2)
          /\ KeyOfMessage(m1) \in StoreKeys
          /\ KeyOfMessage(m2) \in StoreKeys
    /\ Len(hist.appeared) >= 2

====
